---- MODULE Spec2Model ----
(***************************************************************************)
(* fleetd device agent (examples/agents/python-raspberry-pi/fleetd_agent.py)*)
(*                                                                         *)
(* The agent is one process: the main thread runs start(), which loads or  *)
(* enrols credentials, pushes the inventory, sets the running flag and     *)
(* spawns three daemon threads (heartbeat, telemetry, command poll).  The  *)
(* command-poll thread executes every command of a polled batch through   *)
(* _execute_command; an 'update' command runs the update state machine of  *)
(* _handle_update_command.                                                 *)
(*                                                                         *)
(* Every request to a collaborator (server, OS, installer, file system) is *)
(* one step; its outcome is a nondeterministic choice.  acks and updates   *)
(* record, in order, the requests the agent issued for the command being   *)
(* executed: _acknowledge_command and _report_update_status swallow every  *)
(* error of their POST, so a delivered and a lost report leave the agent   *)
(* in the same state.                                                      *)
(***************************************************************************)
EXTENDS Integers, Sequences, FiniteSets

\* ------------------------------------------------------------------ bounds
MaxBatch == 2       \* commands returned by one poll
MaxQueue == 2       \* wake items the model lets pile up in command_queue
MaxChunks == 2      \* chunks one download delivers

\* ------------------------------------------------------------- value sets
None == "None"

CommandTypes == {"reboot", "execute", "update", "collect_logs"}
UnknownType == "selfdestruct"         \* a type the dispatch does not know
Terminal == {"completed", "failed"}

ChunkSizes == {1, 2}                  \* len(chunk), in units
ContentLengths == {0, 1, 4}           \* content-length, in units; 0: header absent
Artifacts == {"art1", "art2"}         \* contents a download can leave on disk
ExitCodes == {0, 1}

\* Hex strings are sequences of characters.
\* hashlib.sha256(...).hexdigest(): a lower-case hex string, distinct per content.
Sha256Hex(content) ==
  CASE content = "art1" -> <<"a", "1">>
    [] content = "art2" -> <<"b", "2">>
    [] OTHER -> <<"0", "0">>

\* The checksums a server may send: a digest, the same digest in upper case,
\* and the digest of another artifact.
ExpectedChecksums == {<<"a", "1">>, <<"A", "1">>, <<"b", "2">>}

VARIABLES
  main_pc,        \* position of the main thread in main()/start()
  running,        \* self.running
  device_id,      \* self.device_id
  device_token,   \* self.config.device_token
  creds_file,     \* ~/.fleetd/credentials.json: "absent", "valid" or "corrupt"
  enrolled,       \* how the call of enroll() in start() ended, None before it
  inventory,      \* how the inventory push of start() ended, None before it
  command_queue,  \* self.command_queue
  hb_pc,          \* position of the heartbeat thread
  tel_pc,         \* position of the telemetry thread
  cmd_pc,         \* position of the command-poll thread
  wake,           \* how the last command_queue.get() ended
  batch_left,     \* commands of the polled batch not yet taken by the for loop
  cmd_idx,        \* position in the batch of the command being executed
  cmd,            \* the command descriptor being executed
  acks,           \* acknowledgements issued for cmd, in order
  updates,        \* update statuses issued for cmd's update job, in order
  effects,        \* collaborator side effects attempted for cmd
  update_file,    \* content of ~/.fleetd/updates/<update_id>.bin
  total_size,     \* _download_update: total_size
  downloaded,     \* _download_update: downloaded
  chunks          \* chunks received by the running download

vars == <<main_pc, running, device_id, device_token, creds_file, enrolled,
          inventory, command_queue,
          hb_pc, tel_pc, cmd_pc, wake, batch_left, cmd_idx, cmd, acks, updates,
          effects, update_file, total_size, downloaded, chunks>>

lifecycle_vars == <<main_pc, running, device_id, device_token, creds_file,
                    enrolled, inventory>>
duty_vars == <<hb_pc, tel_pc>>
exec_vars == <<batch_left, cmd_idx, cmd, acks, updates, effects, update_file,
               total_size, downloaded, chunks>>
job_vars == <<updates, update_file, total_size, downloaded, chunks>>

\* -------------------------------------------------------------- commands
NoCommand ==
  [has_id |-> FALSE, command |-> None, checksum |-> None, reboot_required |-> FALSE]

PlainCommand(t) ==
  [has_id |-> TRUE, command |-> t, checksum |-> None, reboot_required |-> FALSE]

\* What response.json()['commands'] may hold: the four known types, an unknown
\* type, update payloads, and a descriptor without an 'id' key.
Descriptors ==
  {PlainCommand(t) : t \in {"reboot", "execute", "collect_logs", UnknownType}}
  \cup {[has_id |-> TRUE, command |-> "update", checksum |-> c, reboot_required |-> r] :
          c \in ExpectedChecksums, r \in BOOLEAN}
  \cup {[has_id |-> FALSE, command |-> "reboot", checksum |-> None, reboot_required |-> FALSE]}

\* The process is gone once main() has returned: the three threads are daemons.
alive == main_pc # "exited"

Init ==
  /\ main_pc = "load"
  /\ running = FALSE
  /\ device_id = None
  /\ device_token = None
  /\ creds_file \in {"absent", "valid", "corrupt"}
  /\ enrolled = None
  /\ inventory = None
  /\ command_queue = <<>>
  /\ hb_pc = "unstarted"
  /\ tel_pc = "unstarted"
  /\ cmd_pc = "unstarted"
  /\ wake = None
  /\ batch_left = 0
  /\ cmd_idx = 0
  /\ cmd = NoCommand
  /\ acks = <<>>
  /\ updates = <<>>
  /\ effects = {}
  /\ update_file = None
  /\ total_size = 0
  /\ downloaded = 0
  /\ chunks = 0

\* ------------------------------------------------------------- lifecycle
\* The identity the server knows this device by: what a valid credentials file
\* holds and what an enrollment response carries.
DeviceId == "dev-1"
DeviceToken == "tok-1"

\* start(), lines 624-625: _load_credentials.
load_credentials ==
  /\ main_pc = "load"
  /\ IF creds_file = "valid"
       THEN /\ device_id' = DeviceId
            /\ device_token' = DeviceToken
            /\ main_pc' = "inventory"
       ELSE /\ UNCHANGED <<device_id, device_token>>
            /\ main_pc' = "enroll"
  /\ UNCHANGED <<running, creds_file, enrolled, inventory, command_queue, duty_vars,
                 cmd_pc, wake, exec_vars>>

\* How the enrollment request can end: 409, credentials issued and saved,
\* credentials issued but _save_credentials raised, or the request failed.
EnrollResponses == {"conflict", "issued", "unsaved", "failed"}

\* An enroll() that stores what it has on a 409 as on a 2xx.
enroll_credentials_on_conflict(response, id, token, file) ==
  CASE response \in {"issued", "conflict"} -> <<DeviceId, DeviceToken, "valid">>
    [] response = "unsaved" -> <<DeviceId, DeviceToken, file>>
    [] OTHER -> <<id, token, file>>

\* enroll(), lines 233-253: device_id, device_token and the credentials file
\* after the response.  A 409 returns before anything is stored.
enroll_credentials(response, id, token, file) ==
  CASE response = "issued" -> <<DeviceId, DeviceToken, "valid">>
    [] response = "unsaved" -> <<DeviceId, DeviceToken, file>>
    [] OTHER -> <<id, token, file>>

\* enroll(), lines 235, 253 and 257: the value returned.
enroll_returns(response) == response \in {"conflict", "issued"}

\* A start() that ignores what enroll() returned.
after_enroll_ignored(ok) == "inventory"

\* start(), lines 627-629: a failed enrollment ends start(), and with it main().
after_enroll(ok) == IF ok THEN "inventory" ELSE "exited"

enroll ==
  /\ main_pc = "enroll"
  /\ \E response \in EnrollResponses :
       LET stored == enroll_credentials(response, device_id, device_token, creds_file)
       IN /\ enrolled' = response
          /\ device_id' = stored[1]
          /\ device_token' = stored[2]
          /\ creds_file' = stored[3]
          /\ main_pc' = after_enroll(enroll_returns(response))
  /\ UNCHANGED <<running, inventory, command_queue, duty_vars, cmd_pc, wake, exec_vars>>

\* start(), lines 631-640: the inventory push; its failure is logged.
push_inventory ==
  /\ main_pc = "inventory"
  /\ inventory' \in {"pushed", "failed"}
  /\ main_pc' = "run"
  /\ UNCHANGED <<running, device_id, device_token, creds_file, enrolled,
                 command_queue, duty_vars, cmd_pc, wake, exec_vars>>

\* start(), lines 642-652: running = True and the three threads.  What enroll()
\* returned and how the inventory push ended were only tested or logged on the
\* way here: nothing keeps them.
start_threads ==
  /\ main_pc = "run"
  /\ main_pc' = "loop"
  /\ running' = TRUE
  /\ hb_pc' = "check"
  /\ tel_pc' = "check"
  /\ cmd_pc' = "check"
  /\ enrolled' = None
  /\ inventory' = None
  /\ UNCHANGED <<device_id, device_token, creds_file, command_queue, wake, exec_vars>>

\* KeyboardInterrupt in the wait loop of start(): stop() clears the flag.
stop ==
  /\ main_pc = "loop"
  /\ running' = FALSE
  /\ main_pc' = "stopped"
  /\ UNCHANGED <<device_id, device_token, creds_file, enrolled, inventory,
                 command_queue, duty_vars, cmd_pc, wake, exec_vars>>

\* start() returns to main(), main() returns, the interpreter exits.  The
\* threads are daemons: whichever has not left its loop is killed where it
\* stands, and the memory of the process is gone; the files stay.
killed(pc) == IF pc = "done" THEN "done" ELSE "killed"

main_return ==
  /\ main_pc = "stopped"
  /\ main_pc' = "exited"
  /\ hb_pc' = killed(hb_pc)
  /\ tel_pc' = killed(tel_pc)
  /\ cmd_pc' = killed(cmd_pc)
  /\ command_queue' = <<>>
  /\ wake' = None
  /\ batch_left' = 0
  /\ cmd_idx' = 0
  /\ cmd' = NoCommand
  /\ acks' = <<>>
  /\ updates' = <<>>
  /\ effects' = {}
  /\ total_size' = 0
  /\ downloaded' = 0
  /\ chunks' = 0
  /\ UNCHANGED <<running, device_id, device_token, creds_file, enrolled, inventory,
                 update_file>>

\* ---------------------------------------------------- heartbeat, telemetry
\* A duty loop that never tests the flag.
while_true(flag) == TRUE

\* Lines 590, 599 and 608: while self.running.
while_running(flag) == flag

\* A duty loop that leaves the loop when its iteration did not succeed.
iteration_ends_loop_on_failure(ok) == ~ok

\* Lines 590-595, 599-604, 608-618: the loops do not read what the iteration
\* returned and their bare except passes, so no outcome leaves the loop.
iteration_ends_loop(ok) == FALSE

\* One iteration of _heartbeat_loop: the flag test and send_heartbeat.  A
\* response with pending_commands > 0 puts one item on the queue; every error
\* of the request returns False.
heartbeat ==
  /\ alive
  /\ hb_pc = "check"
  /\ IF while_running(running)
       THEN \E ok \in BOOLEAN :
              /\ hb_pc' = IF iteration_ends_loop(ok) THEN "done" ELSE "sleep"
              /\ \/ UNCHANGED command_queue            \* error, or nothing pending
                 \/ /\ ok
                    /\ Len(command_queue) < MaxQueue
                    /\ command_queue' = Append(command_queue, "poll_commands")
       ELSE /\ hb_pc' = "done"
            /\ UNCHANGED command_queue
  /\ UNCHANGED <<lifecycle_vars, tel_pc, cmd_pc, wake, exec_vars>>

heartbeat_sleep ==
  /\ alive
  /\ hb_pc = "sleep"
  /\ hb_pc' = "check"
  /\ UNCHANGED <<lifecycle_vars, command_queue, tel_pc, cmd_pc, wake, exec_vars>>

telemetry ==
  /\ alive
  /\ tel_pc = "check"
  /\ \E ok \in BOOLEAN :
       tel_pc' = IF while_running(running) /\ ~iteration_ends_loop(ok)
                   THEN "sleep" ELSE "done"
  /\ UNCHANGED <<lifecycle_vars, command_queue, hb_pc, cmd_pc, wake, exec_vars>>

telemetry_sleep ==
  /\ alive
  /\ tel_pc = "sleep"
  /\ tel_pc' = "check"
  /\ UNCHANGED <<lifecycle_vars, command_queue, hb_pc, cmd_pc, wake, exec_vars>>

\* ------------------------------------------------------------ command loop
\* A wait that sleeps out the interval whatever the queue holds.
get_always_times_out(q) == TRUE

\* Queue.get(timeout=...) raises Empty only when no item arrived in time.
get_times_out(q) == Len(q) = 0

command_loop_check ==
  /\ alive
  /\ cmd_pc = "check"
  /\ cmd_pc' = IF while_running(running) THEN "wait" ELSE "done"
  /\ UNCHANGED <<lifecycle_vars, command_queue, duty_vars, wake, exec_vars>>

command_loop_get ==
  /\ alive
  /\ cmd_pc = "wait"
  /\ Len(command_queue) > 0
  /\ command_queue' = Tail(command_queue)
  /\ wake' = "signal"
  /\ cmd_pc' = "poll"
  /\ UNCHANGED <<lifecycle_vars, duty_vars, exec_vars>>

command_loop_timeout ==
  /\ alive
  /\ cmd_pc = "wait"
  /\ get_times_out(command_queue)
  /\ wake' = "timeout"
  /\ cmd_pc' = "poll"
  /\ UNCHANGED <<lifecycle_vars, command_queue, duty_vars, exec_vars>>


\* poll_commands, lines 353-364 and 369-370: 204 and every request error end the
\* call; a 2xx response carries a list of commands for the for loop.
poll_commands ==
  /\ alive
  /\ cmd_pc = "poll"
  /\ wake' = None
  /\ \/ \E ok \in BOOLEAN :                          \* 204, or a request error
          /\ cmd_pc' = IF iteration_ends_loop(ok) THEN "done" ELSE "check"
          /\ UNCHANGED batch_left
     \/ \E n \in 0..MaxBatch :
          /\ batch_left' = n
          /\ cmd_pc' = "for"
  /\ UNCHANGED <<lifecycle_vars, command_queue, duty_vars, cmd_idx, cmd, acks,
                 effects, job_vars>>

\* The for loop is exhausted (or an exception reached line 369): poll_commands
\* returns and the locals of the call are gone.
poll_commands_return ==
  /\ alive
  /\ \/ cmd_pc = "for" /\ batch_left = 0
     \/ cmd_pc = "exec_raised"
  /\ cmd_pc' = IF iteration_ends_loop(cmd_pc # "exec_raised") THEN "done" ELSE "check"
  /\ batch_left' = 0
  /\ cmd_idx' = 0
  /\ cmd' = NoCommand
  /\ acks' = <<>>
  /\ updates' = <<>>
  /\ effects' = {}
  /\ update_file' = None
  /\ total_size' = 0
  /\ downloaded' = 0
  /\ chunks' = 0
  /\ UNCHANGED <<lifecycle_vars, command_queue, duty_vars, wake>>

\* ---------------------------------------------------------------- executor
\* _acknowledge_command: ack_data is a dict holding 'status' and those of
\* 'message', 'result', 'error' that were passed; it is POSTed, and every error
\* of the POST stays inside the try.
acknowledge_command(log, ack_data) == Append(log, ack_data)

\* _report_update_status: status_data holds 'status' and those of 'progress',
\* 'error' that were passed.
report_update_status(log, status_data) == Append(log, status_data)

Ack(status) == [status |-> status]
AckResult(status, result) == [status |-> status, result |-> result]
AckError(error) == [status |-> "failed", error |-> error]
Progress(status, progress) == [status |-> status, progress |-> progress]
UpdateError(error) == [status |-> "failed", error |-> error]

\* A dispatch whose default branch runs the payload as a script.
dispatch_default_execute(command_type) ==
  IF command_type \in CommandTypes THEN command_type ELSE "execute"

\* The if/elif chain of _execute_command, lines 385-418.
dispatch(command_type) ==
  IF command_type \in CommandTypes THEN command_type ELSE "unknown"

\* A final status that ignores the exit code.
execute_status_ignores_code(returncode) == "completed"

\* Line 404.
execute_status(returncode) == IF returncode = 0 THEN "completed" ELSE "failed"

\* A verification that accepts every file.
verify_checksum_accepts_all(file, expected_checksum) == TRUE

\* _verify_checksum, lines 514-522.
verify_checksum(file, expected_checksum) == Sha256Hex(file) = expected_checksum

\* Line 509: int((downloaded / total_size) * 50).
download_progress(n, total) == (n * 50) \div total

ScriptResult(rc) == [stdout |-> "out", stderr |-> "err", returncode |-> rc]

\* The for loop takes the next descriptor and _execute_command starts on it:
\* command['id'] (outside the try), the 'received' acknowledgement, the dispatch
\* and, for reboot and execute, the 'executing' acknowledgement.
execute_command_begin ==
  /\ alive
  /\ cmd_pc = "for"
  /\ batch_left > 0
  /\ \E d \in Descriptors :
       /\ cmd' = d
       /\ IF ~d.has_id
            THEN /\ acks' = <<>>                     \* KeyError leaves the function
                 /\ cmd_pc' = "exec_raised"
            ELSE LET received == acknowledge_command(<<>>, Ack("received"))
                     branch == dispatch(d.command)
                 IN CASE branch \in {"reboot", "execute"} ->
                           /\ acks' = acknowledge_command(received, Ack("executing"))
                           /\ cmd_pc' = branch
                      [] branch \in {"update", "collect_logs"} ->
                           /\ acks' = received
                           /\ cmd_pc' = branch
                      [] OTHER ->
                           /\ acks' = acknowledge_command(received,
                                                          AckError("Unknown command type"))
                           /\ cmd_pc' = "for"
  /\ batch_left' = batch_left - 1
  /\ cmd_idx' = cmd_idx + 1
  /\ updates' = <<>>
  /\ effects' = {}
  /\ update_file' = None
  /\ total_size' = 0
  /\ downloaded' = 0
  /\ chunks' = 0
  /\ UNCHANGED <<lifecycle_vars, command_queue, duty_vars, wake>>

\* What subprocess.run(['sudo', 'reboot'], check=True) can do: return with exit
\* code 0, fail to launch (OSError), or return a non-zero exit code.
RebootOutcomes == {"ok", "launch_error", "nonzero_exit"}

\* A reboot call whose failures are swallowed.
reboot_raises_never(outcome) == FALSE

\* Line 387: check=True turns a non-zero exit into CalledProcessError; a launch
\* error raises by itself.
reboot_raises(outcome) == outcome # "ok"

\* Line 387: subprocess.run(['sudo', 'reboot'], check=True).  A launch error or
\* a non-zero exit raises into the handler of lines 425-431.
run_reboot ==
  /\ alive
  /\ cmd_pc = "reboot"
  /\ \E outcome \in RebootOutcomes :
       /\ effects' = effects \cup {"reboot"} \cup
                        (IF outcome = "ok" THEN {} ELSE {"reboot_error"})
       /\ acks' = IF reboot_raises(outcome)
                    THEN acknowledge_command(acks, AckError("reboot failed"))
                    ELSE acks
  /\ cmd_pc' = "for"
  /\ UNCHANGED <<lifecycle_vars, command_queue, duty_vars, wake, batch_left,
                 cmd_idx, cmd, job_vars>>

\* Lines 391-410: the script runs to an exit code, or subprocess.run raises
\* (TimeoutExpired, OSError) into the handler of lines 425-431.
run_script ==
  /\ alive
  /\ cmd_pc = "execute"
  /\ effects' = effects \cup {"script"}
  /\ \/ \E rc \in ExitCodes :
          acks' = acknowledge_command(acks, AckResult(execute_status(rc), ScriptResult(rc)))
     \/ acks' = acknowledge_command(acks, AckError("script timed out"))
  /\ cmd_pc' = "for"
  /\ UNCHANGED <<lifecycle_vars, command_queue, duty_vars, wake, batch_left,
                 cmd_idx, cmd, job_vars>>

\* _collect_and_upload_logs: journalctl (for log_type 'system' only), the
\* upload, one final acknowledgement.
collect_and_upload_logs ==
  /\ alive
  /\ cmd_pc = "collect_logs"
  /\ \/ /\ effects' = effects \cup {"journalctl"}
        /\ acks' = acknowledge_command(acks, AckError("journalctl failed"))
     \/ \E collected \in {{"journalctl"}, {}} :
          /\ effects' = effects \cup collected \cup {"upload"}
          /\ \/ acks' = acknowledge_command(acks, AckError("upload failed"))
             \/ acks' = acknowledge_command(acks, Ack("completed"))
  /\ cmd_pc' = "for"
  /\ UNCHANGED <<lifecycle_vars, command_queue, duty_vars, wake, batch_left,
                 cmd_idx, cmd, job_vars>>

\* ------------------------------------------------------ update state machine
\* A handler that acknowledges the failed command without reporting the update
\* status.
update_failed_ack_only(error) ==
  /\ updates' = updates
  /\ acks' = acknowledge_command(acks, AckError(error))
  /\ cmd_pc' = "for"

\* The handler of _handle_update_command, lines 486-489.
update_failed(error) ==
  /\ updates' = report_update_status(updates, UpdateError(error))
  /\ acks' = acknowledge_command(acks, AckError(error))
  /\ cmd_pc' = "for"

\* A _report_update_status that lets the error of an undelivered report out.
report_raises_when_undelivered(delivered) == ~delivered

\* _report_update_status, lines 534 and 548-549: the POST and raise_for_status
\* sit in a try whose handler only logs, so no report raises into its caller.
report_raises(delivered) == FALSE

\* Where an exception of a report issued from the try of line 462 would go:
\* the handler of lines 486-489.  log holds the report that was issued.
report_raised(log) ==
  /\ updates' = report_update_status(log, UpdateError("report failed"))
  /\ acks' = acknowledge_command(acks, AckError("report failed"))
  /\ cmd_pc' = "for"

\* Lines 464-465 and 493-502: 'downloading' 0, then the GET.  An error status
\* raises; otherwise the file is opened for writing and content-length is read.
update_start ==
  /\ alive
  /\ cmd_pc = "update"
  /\ \E delivered \in BOOLEAN :
       LET started == report_update_status(updates, Progress("downloading", 0))
       IN IF report_raises(delivered)
            THEN /\ report_raised(started)
                 /\ UNCHANGED <<effects, update_file, total_size>>
            ELSE /\ effects' = effects \cup {"download"}
                 /\ \/ /\ updates' = report_update_status(started,
                                                          UpdateError("download failed"))
                       /\ acks' = acknowledge_command(acks, AckError("download failed"))
                       /\ cmd_pc' = "for"
                       /\ UNCHANGED <<update_file, total_size>>
                    \/ /\ updates' = started
                       /\ update_file' = "partial"
                       /\ total_size' \in ContentLengths
                       /\ cmd_pc' = "download"
                       /\ UNCHANGED acks
  /\ UNCHANGED <<lifecycle_vars, command_queue, duty_vars, wake, batch_left,
                 cmd_idx, cmd, downloaded, chunks>>

\* A download loop that reports every chunk, with progress 0 when no total is known.
chunk_reports_always(log, n, total) ==
  report_update_status(log, Progress("downloading",
    IF total > 0 THEN download_progress(n, total) ELSE 0))

\* Lines 508-510: the report sent after a chunk brought the byte count to n.
chunk_reports(log, n, total) ==
  IF total > 0
    THEN report_update_status(log, Progress("downloading", download_progress(n, total)))
    ELSE log

\* Lines 503-510: one chunk is written; with a known total its progress is reported.
download_chunk ==
  /\ alive
  /\ cmd_pc = "download"
  /\ chunks < MaxChunks
  /\ \E size \in ChunkSizes, delivered \in BOOLEAN :
       /\ downloaded' = downloaded + size
       /\ LET reported == chunk_reports(updates, downloaded + size, total_size)
          IN IF reported # updates /\ report_raises(delivered)
               THEN report_raised(reported)
               ELSE /\ updates' = reported
                    /\ UNCHANGED <<cmd_pc, acks>>
  /\ chunks' = chunks + 1
  /\ UNCHANGED <<lifecycle_vars, command_queue, duty_vars, wake, batch_left,
                 cmd_idx, cmd, effects, update_file, total_size>>

\* The stream breaks: iter_content raises into the handler.
download_error ==
  /\ alive
  /\ cmd_pc = "download"
  /\ update_failed("download failed")
  /\ UNCHANGED <<lifecycle_vars, command_queue, duty_vars, wake, batch_left,
                 cmd_idx, cmd, effects, update_file, total_size, downloaded, chunks>>

\* The stream ends: the artifact is on disk and 'verifying' 50 is reported.
download_done ==
  /\ alive
  /\ cmd_pc = "download"
  /\ update_file' \in Artifacts
  /\ \E delivered \in BOOLEAN :
       LET reported == report_update_status(updates, Progress("verifying", 50))
       IN IF report_raises(delivered)
            THEN report_raised(reported)
            ELSE /\ updates' = reported
                 /\ cmd_pc' = "verify"
                 /\ UNCHANGED acks
  /\ UNCHANGED <<lifecycle_vars, command_queue, duty_vars, wake, batch_left,
                 cmd_idx, cmd, effects, total_size, downloaded, chunks>>

\* Lines 469-473.
verify ==
  /\ alive
  /\ cmd_pc = "verify"
  /\ IF verify_checksum(update_file, cmd.checksum)
       THEN \E delivered \in BOOLEAN :
              LET reported == report_update_status(updates, Progress("installing", 75))
              IN IF report_raises(delivered)
                   THEN report_raised(reported)
                   ELSE /\ updates' = reported
                        /\ cmd_pc' = "install"
                        /\ UNCHANGED acks
       ELSE update_failed("Checksum verification failed")
  /\ UNCHANGED <<lifecycle_vars, command_queue, duty_vars, wake, batch_left,
                 cmd_idx, cmd, effects, update_file, total_size, downloaded, chunks>>

\* Lines 474-481: the installer; on its return 'completed' 100 and the
\* 'completed' acknowledgement.
install_update ==
  /\ alive
  /\ cmd_pc = "install"
  /\ effects' = effects \cup {"install"}
  /\ \/ update_failed("install failed")
     \/ \E delivered \in BOOLEAN :
          LET reported == report_update_status(updates, Progress("completed", 100))
          IN IF report_raises(delivered)
               THEN report_raised(reported)
               ELSE /\ updates' = reported
                    /\ acks' = acknowledge_command(acks, Ack("completed"))
                    /\ cmd_pc' = IF cmd.reboot_required THEN "update_reboot" ELSE "for"
  /\ UNCHANGED <<lifecycle_vars, command_queue, duty_vars, wake, batch_left,
                 cmd_idx, cmd, update_file, total_size, downloaded, chunks>>

\* Lines 482-484, inside the try of line 462: the reboot runs, with any exit
\* code, or cannot be launched and raises into the handler of lines 486-489.
update_reboot ==
  /\ alive
  /\ cmd_pc = "update_reboot"
  /\ effects' = effects \cup {"reboot"}
  /\ \/ /\ cmd_pc' = "for"
        /\ UNCHANGED <<acks, updates>>
     \/ update_failed("reboot failed")
  /\ UNCHANGED <<lifecycle_vars, command_queue, duty_vars, wake, batch_left,
                 cmd_idx, cmd, update_file, total_size, downloaded, chunks>>

\* ------------------------------------------------------------ specification
Next ==
  \/ load_credentials
  \/ enroll
  \/ push_inventory
  \/ start_threads
  \/ stop
  \/ main_return
  \/ heartbeat
  \/ heartbeat_sleep
  \/ telemetry
  \/ telemetry_sleep
  \/ command_loop_check
  \/ command_loop_get
  \/ command_loop_timeout
  \/ poll_commands
  \/ poll_commands_return
  \/ execute_command_begin
  \/ run_reboot
  \/ run_script
  \/ collect_and_upload_logs
  \/ update_start
  \/ download_chunk
  \/ download_error
  \/ download_done
  \/ verify
  \/ install_update
  \/ update_reboot

Spec == Init /\ [][Next]_vars


\* ------------------------------------------------------------------ claims
Statuses(log) == [i \in DOMAIN log |-> log[i].status]
HasTerminal(log) == \E i \in DOMAIN log : log[i].status \in Terminal
Last(log) == log[Len(log)]

\* The update job of cmd has a complete artifact on disk and has left Verifying.
Verified ==
  /\ cmd.command = "update"
  /\ update_file \in Artifacts
  /\ cmd_pc # "verify"

\* C1: an update job whose artifact's SHA-256 differs from the expected checksum
\* never reaches the installer and ends with a 'failed' update status and a
\* 'failed' acknowledgement.
C1_ChecksumMismatchFails ==
  (cmd.command = "update" /\ update_file \in Artifacts
     /\ Sha256Hex(update_file) # cmd.checksum)
  => /\ "install" \notin effects
     /\ cmd_pc \in {"verify", "for"}
     /\ cmd_pc = "for" =>
          /\ Last(updates).status = "failed"
          /\ Last(acks).status = "failed"
          /\ \A i \in DOMAIN updates : updates[i].status \notin {"installing", "completed"}

C1_Witness ==
  /\ Verified
  /\ Sha256Hex(update_file) # cmd.checksum
  /\ Last(updates).status = "failed"
  /\ Last(acks).status = "failed"

\* Only the letters of a hex string have a case.
ToLowerChar(c) ==
  CASE c = "A" -> "a" [] c = "B" -> "b" [] c = "C" -> "c"
    [] c = "D" -> "d" [] c = "E" -> "e" [] c = "F" -> "f"
    [] OTHER -> c

ToLower(s) == [i \in DOMAIN s |-> ToLowerChar(s[i])]

\* C2: an update job whose expected checksum equals the artifact's SHA-256 up to
\* letter case passes verification: 'installing' is reported for it.
C2_CaseInsensitiveChecksum ==
  (Verified /\ ToLower(cmd.checksum) = Sha256Hex(update_file))
  => \E i \in DOMAIN updates : updates[i].status = "installing"

\* C3: once a terminal status was acknowledged for a command, no further status
\* is acknowledged for it.
C3_TerminalStatusIsLast ==
  \A i \in DOMAIN acks : acks[i].status \in Terminal => i = Len(acks)

\* C4: a command of a batch begins (its 'received' is acknowledged) only after
\* the command before it has reached a terminal status.
C4_SerializedOnTerminal ==
  [][(cmd_idx >= 1 /\ cmd_idx' = cmd_idx + 1 /\ Len(acks') >= 1)
       => HasTerminal(acks)]_vars

\* C5: the progress values reported for an update job never decrease.
C5_ProgressNonDecreasing ==
  \A i, j \in DOMAIN updates :
    (i < j /\ "progress" \in DOMAIN updates[i] /\ "progress" \in DOMAIN updates[j])
    => updates[i].progress <= updates[j].progress

\* C6: a wait of the command-poll duty that ends while a wake item is pending
\* ends by taking that item, never by the timeout; and a wake item leaves the
\* queue only by ending such a wait.
C6_WakeEndsWait ==
  [][/\ (cmd_pc = "wait" /\ cmd_pc' = "poll" /\ Len(command_queue) > 0)
          => (wake' = "signal" /\ command_queue' = Tail(command_queue))
     /\ (alive' /\ Len(command_queue') < Len(command_queue))
          => (cmd_pc = "wait" /\ cmd_pc' = "poll" /\ wake' = "signal")]_vars

C6_Witness ==
  /\ running
  /\ cmd_pc = "poll"
  /\ wake = "signal"

\* C7: at most one wake notification is ever pending for the command-poll duty.
C7_SingleSlotWake == Len(command_queue) <= 1

\* C8: a command of an unrecognized type gets 'received' then 'failed' with the
\* unknown-command-type error, nothing else, and no side effect is attempted.
C8_UnknownTypeFails ==
  (cmd.has_id /\ cmd.command \notin CommandTypes)
  => /\ cmd_pc = "for"
     /\ Statuses(acks) = <<"received", "failed">>
     /\ acks[2] = [status |-> "failed", error |-> "Unknown command type"]
     /\ effects = {}
     /\ updates = <<>>
     /\ update_file = None

C8_Witness ==
  /\ cmd.has_id
  /\ cmd.command = UnknownType
  /\ Len(acks) = 2

\* C9: an 'execute' command gets 'received', 'executing' and then one final
\* status; when the script ran to an exit code the final status is 'completed'
\* exactly if the code is zero, and it carries stdout, stderr and the code.
C9_ExecuteStatusMatchesExitCode ==
  (cmd.has_id /\ cmd.command = "execute")
  => /\ cmd_pc \in {"execute", "for"}
     /\ Len(acks) = (IF cmd_pc = "for" THEN 3 ELSE 2)
     /\ acks[1] = [status |-> "received"]
     /\ acks[2] = [status |-> "executing"]
     /\ Len(acks) = 3 =>
          /\ acks[3].status \in Terminal
          /\ "result" \in DOMAIN acks[3] =>
               /\ DOMAIN acks[3].result = {"stdout", "stderr", "returncode"}
               /\ acks[3].status = "completed" <=> acks[3].result.returncode = 0

C9_Witness ==
  /\ cmd.command = "execute"
  /\ Len(acks) = 3
  /\ "result" \in DOMAIN acks[3]
  /\ acks[3].result.returncode # 0
  /\ acks[3].status = "failed"

\* C10: _execute_command never raises to poll_commands, whatever descriptor the
\* server returned, so the rest of the batch is never abandoned.
C10_ExecutorNeverRaises == cmd_pc # "exec_raised"

\* The three duties have been started.
DutiesStarted ==
  /\ hb_pc # "unstarted"
  /\ tel_pc # "unstarted"
  /\ cmd_pc # "unstarted"

\* The step of start() that follows the inventory push sets the flag and starts
\* the three duties.
StartupProceeds ==
  (main_pc = "run" /\ main_pc' # main_pc) =>
    (main_pc' = "loop" /\ running' /\ DutiesStarted')

\* C11: when no credentials were loaded and enroll() returns False, start()
\* returns with the flag never set, no inventory pushed and no duty started; a
\* failed inventory push is followed by setting the flag and starting the duties.
C11_EnrollmentFailureFatal ==
  /\ [](enrolled \in {"failed", "unsaved"}
          => /\ main_pc = "exited"
             /\ ~running
             /\ inventory = None
             /\ hb_pc = "unstarted" /\ tel_pc = "unstarted" /\ cmd_pc = "unstarted")
  /\ [](inventory = "failed" => (main_pc = "run" /\ ENABLED start_threads))
  /\ [][StartupProceeds]_vars

C11_Witness ==
  /\ enrolled = "failed"
  /\ device_id = None
  /\ main_pc = "exited"

\* C12: a 409 from the enrollment endpoint makes enroll() return True with
\* device_id, the device token and the credentials file left as they were, and
\* start() goes on to the inventory push and the duties.
C12_ConflictKeepsCredentials ==
  /\ [](enrolled = "conflict"
          => /\ device_id = None
             /\ device_token = None
             /\ creds_file \in {"absent", "corrupt"}
             /\ main_pc \in {"inventory", "run"}
             /\ ENABLED (push_inventory \/ start_threads))
  /\ [][(enrolled = None /\ enrolled' = "conflict")
          => /\ UNCHANGED <<device_id, device_token, creds_file>>
             /\ main_pc' = "inventory"]_vars
  /\ [][(enrolled = "conflict" /\ main_pc' # main_pc)
          => /\ UNCHANGED <<device_id, device_token, creds_file>>
             /\ \/ main_pc = "inventory" /\ main_pc' = "run"
                \/ main_pc' = "loop" /\ running' /\ DutiesStarted']_vars

\* After a 409 the inventory was pushed with no credentials stored, and start()
\* is about to start the duties.
C12_Witness ==
  /\ enrolled = "conflict"
  /\ device_id = None
  /\ inventory = "pushed"
  /\ main_pc = "run"

\* The command-poll duty is inside _execute_command: 'received' was
\* acknowledged for cmd and the call has not returned.
InFlight ==
  cmd_pc \in {"reboot", "execute", "update", "collect_logs", "download", "verify",
              "install", "update_reboot"}

\* C13: the end of start() and main() after stop() never cuts short a command
\* that is being executed.
C13_StopNeverAborts ==
  [][(main_pc = "stopped" /\ main_pc' = "exited") => ~InFlight]_vars

\* C14: once 'completed' or 'failed' was reported for an update job, no further
\* update status is reported for it.
C14_TerminalPhaseIsLast ==
  \A i \in DOMAIN updates : updates[i].status \in Terminal => i = Len(updates)

\* C15: after an update job has reported 'failed' for a checksum mismatch, the
\* downloaded artifact is no longer on local storage.
C15_ArtifactDiscarded ==
  (/\ cmd.command = "update"
   /\ updates # <<>>
   /\ Last(updates) = UpdateError("Checksum verification failed"))
  => update_file = None

\* C16: when the download advertises no total size, the only 'downloading'
\* report is the first one, with progress 0, and the next progress report is
\* 'verifying' with 50, whatever the number of chunks.
C16_NoTotalSingleLowProgress ==
  (cmd.command = "update" /\ total_size = 0) =>
    /\ \A i \in DOMAIN updates :
         updates[i].status = "downloading" => (i = 1 /\ updates[i].progress = 0)
    /\ \A i \in DOMAIN updates :
         updates[i].status = "verifying" => (i = 2 /\ updates[i].progress = 50)

C16_Witness ==
  /\ cmd.command = "update"
  /\ total_size = 0
  /\ chunks >= 2
  /\ cmd_pc = "verify"
  /\ updates = <<Progress("downloading", 0), Progress("verifying", 50)>>

\* The 'downloading' reports sent while chunks were received: all but the first
\* entry of the job, which precedes the download.
ChunkReports(log) ==
  Cardinality({i \in DOMAIN log : i > 1 /\ log[i].status = "downloading"})

\* C20: with a known total size, a download that has received N > 1 chunks has
\* sent fewer than N 'downloading' reports for them.
C20_FewerReportsThanChunks ==
  (cmd.command = "update" /\ total_size > 0 /\ chunks > 1) =>
    ChunkReports(updates) < chunks

\* C18: a reboot command is acknowledged 'received', then 'executing', before
\* the OS reboot is invoked; 'completed' is never acknowledged for it, and
\* 'failed' follows 'executing' exactly when the reboot invocation failed.
C18_RebootReports ==
  (cmd.command = "reboot" /\ cmd.has_id) =>
    /\ cmd_pc = "reboot" => effects = {}
    /\ "reboot" \in effects => cmd_pc # "reboot"
    /\ \A i \in DOMAIN acks : acks[i].status # "completed"
    /\ IF "reboot_error" \in effects
         THEN /\ Len(acks) = 3
              /\ SubSeq(acks, 1, 2) = <<Ack("received"), Ack("executing")>>
              /\ acks[3].status = "failed"
         ELSE acks = <<Ack("received"), Ack("executing")>>

C18_Witness ==
  /\ cmd.command = "reboot"
  /\ cmd.has_id
  /\ effects = {"reboot"}
  /\ acks = <<Ack("received"), Ack("executing")>>

\* The steps of each duty thread.
HeartbeatDuty == heartbeat \/ heartbeat_sleep
TelemetryDuty == telemetry \/ telemetry_sleep
CommandDuty ==
  \/ command_loop_check \/ command_loop_get \/ command_loop_timeout
  \/ poll_commands \/ poll_commands_return \/ execute_command_begin
  \/ run_reboot \/ run_script \/ collect_and_upload_logs
  \/ update_start \/ download_chunk \/ download_error \/ download_done
  \/ verify \/ install_update \/ update_reboot

\* While the process lives and the flag is set, no duty has left its loop and
\* each duty has a step it can take.
DutiesAlive ==
  (alive /\ running /\ DutiesStarted) =>
    /\ hb_pc \in {"check", "sleep"}
    /\ tel_pc \in {"check", "sleep"}
    /\ cmd_pc \notin {"done", "killed", "unstarted"}
    /\ ENABLED HeartbeatDuty
    /\ ENABLED TelemetryDuty
    /\ ENABLED CommandDuty

\* An iteration that ends while the flag is set, failed or not, leads the duty
\* to its wait (heartbeat, telemetry) or to the head of its loop (command
\* poll); an exception raised by a command does the same.
IterationLoopsBack ==
  (alive' /\ running) =>
    /\ (hb_pc = "check" /\ hb_pc' # hb_pc) => hb_pc' = "sleep"
    /\ (tel_pc = "check" /\ tel_pc' # tel_pc) => tel_pc' = "sleep"
    /\ (cmd_pc = "poll" /\ cmd_pc' # cmd_pc) => cmd_pc' \in {"check", "for"}
    /\ (cmd_pc = "exec_raised" /\ cmd_pc' # cmd_pc) => cmd_pc' = "check"

\* The process ends only after stop() or after a failed enrollment.
ExitOnlyByStopOrEnroll ==
  (main_pc # "exited" /\ main_pc' = "exited") => main_pc \in {"stopped", "enroll"}

\* C17: a failed iteration of the heartbeat, telemetry or command-poll duty
\* never stops the duty: while the running flag is set the duty stays in its
\* loop and can start another iteration, and no failure ends the process.
C17_FailedIterationKeepsDuty ==
  /\ []DutiesAlive
  /\ [][IterationLoopsBack /\ ExitOnlyByStopOrEnroll]_vars

\* An exception of a command has reached poll_commands while every duty is in
\* its loop and the flag is set.
C17_Witness ==
  /\ alive
  /\ running
  /\ cmd_pc = "exec_raised"
  /\ hb_pc \in {"check", "sleep"}
  /\ tel_pc \in {"check", "sleep"}

\* The update job of cmd has reported 'downloading' and no terminal status yet.
JobActive == updates # <<>> /\ ~HasTerminal(updates)

\* The executor turns to another command, or poll_commands returns.
LeavesCommand == cmd_idx' # cmd_idx \/ cmd' # cmd

\* C19: in the running agent the executor turns to another command only when
\* the update job and the execution of the current one are over, and only the
\* command-poll thread reports: so at most one update job is active and at most
\* one execution is in flight for a command id.
C19_OneJobOneExecution ==
  [][alive' =>
       /\ LeavesCommand => (~JobActive /\ ~InFlight)
       /\ (updates' # updates \/ acks' # acks) =>
            (hb_pc' = hb_pc /\ tel_pc' = tel_pc /\ main_pc' = main_pc)]_vars

\* The second command of a batch is an update job in its download while the
\* other duties run.
C19_Witness ==
  /\ alive
  /\ running
  /\ JobActive
  /\ cmd_idx = 2
  /\ cmd_pc = "download"
  /\ hb_pc = "sleep"
  /\ tel_pc = "sleep"

\* The place of a phase in Downloading, Verifying, Installing, Completed; a
\* failure comes after all of them.
PhaseRank(status) ==
  CASE status = "downloading" -> 1
    [] status = "verifying" -> 2
    [] status = "installing" -> 3
    [] status = "completed" -> 4
    [] OTHER -> 5

\* The errors of the steps of an update job: the download, the checksum, the
\* installer, the reboot.
StepErrors ==
  {"download failed", "Checksum verification failed", "install failed", "reboot failed"}

\* C21: the statuses reported for an update job start with 'downloading' and go
\* through downloading, verifying, installing, completed without skipping or
\* going back (only 'downloading' is repeated, for progress), with at most one
\* 'failed', which is last; 'installing' is reported only when the checksum of
\* the artifact was accepted, 'completed' only when the installer ran and did
\* not fail; and every 'failed' carries the error of a step of the job, never
\* that of an undelivered report.
C21_PhaseSequence ==
  /\ updates # <<>> => updates[1].status = "downloading"
  /\ \A i \in DOMAIN updates :
       i > 1 =>
         \/ PhaseRank(updates[i].status) = PhaseRank(updates[i - 1].status) + 1
         \/ updates[i].status = "downloading" /\ updates[i - 1].status = "downloading"
         \/ updates[i].status = "failed" /\ updates[i - 1].status # "failed"
  /\ \A i \in DOMAIN updates : updates[i].status = "failed" => i = Len(updates)
  /\ (\E i \in DOMAIN updates : updates[i].status = "installing")
       => (update_file \in Artifacts /\ verify_checksum(update_file, cmd.checksum))
  /\ (\E i \in DOMAIN updates : updates[i].status = "completed")
       => /\ "install" \in effects
          /\ \A i \in DOMAIN updates :
               "error" \in DOMAIN updates[i] => updates[i].error # "install failed"
  /\ \A i \in DOMAIN updates :
       updates[i].status = "failed" => updates[i].error \in StepErrors

\* A job with a known total went through every phase, its download reporting
\* progress for a chunk.
C21_Witness ==
  /\ cmd.command = "update"
  /\ cmd_pc = "for"
  /\ total_size > 0
  /\ Statuses(updates) =
       <<"downloading", "downloading", "verifying", "installing", "completed">>

\* C22: whenever the running flag is set and the duties are started, device_id
\* and the device token are set.
C22_CredentialsBeforeScheduling ==
  (running /\ DutiesStarted) => (device_id # None /\ device_token # None)

\* stop() has cleared the flag and the process still lives.
Stopping == alive /\ ~running /\ DutiesStarted

\* How far a heartbeat or telemetry duty is from having left its loop.
SenderRank(pc) ==
  CASE pc = "sleep" -> 2
    [] pc = "check" -> 1
    [] OTHER -> 0

\* More than the steps any one command takes.
PerCommand == MaxChunks + 8

\* How far the executor is from the end of the command it is in.
CommandRank ==
  CASE cmd_pc = "update" -> MaxChunks + 5
    [] cmd_pc = "download" -> 4 + MaxChunks - chunks
    [] cmd_pc = "verify" -> 3
    [] cmd_pc = "install" -> 2
    [] cmd_pc \in {"update_reboot", "reboot", "execute", "collect_logs"} -> 1
    [] OTHER -> 0

\* How far the command-poll duty is from having left its loop.
PollerRank ==
  CASE cmd_pc = "wait" -> 4 + MaxBatch * PerCommand
    [] cmd_pc = "poll" -> 3 + MaxBatch * PerCommand
    [] cmd_pc = "exec_raised" -> 2
    [] cmd_pc = "check" -> 1
    [] cmd_pc \in {"done", "killed", "unstarted"} -> 0
    [] OTHER -> 2 + batch_left * PerCommand + CommandRank

\* With the flag cleared, a duty that has not left its loop has a step to take.
StoppingDutiesCanStep ==
  Stopping =>
    /\ hb_pc # "done" => ENABLED HeartbeatDuty
    /\ tel_pc # "done" => ENABLED TelemetryDuty
    /\ cmd_pc # "done" => ENABLED CommandDuty

\* A duty that has left its loop has no step: it starts no iteration.
DoneIsFinal ==
  /\ hb_pc = "done" => ~ENABLED HeartbeatDuty
  /\ tel_pc = "done" => ~ENABLED TelemetryDuty
  /\ cmd_pc = "done" => ~ENABLED CommandDuty

\* With the flag cleared, every step of a duty brings it nearer to the end of
\* its loop; no duty begins a wait, and a poll is issued only by the iteration
\* that was waiting.
StoppingStepsDescend ==
  (Stopping /\ alive') =>
    /\ hb_pc' # hb_pc => SenderRank(hb_pc') < SenderRank(hb_pc)
    /\ tel_pc' # tel_pc => SenderRank(tel_pc') < SenderRank(tel_pc)
    /\ <<cmd_pc, batch_left, chunks>>' # <<cmd_pc, batch_left, chunks>>
         => PollerRank' < PollerRank
    /\ cmd_pc' # cmd_pc => cmd_pc' # "wait"
    /\ (cmd_pc' # cmd_pc /\ cmd_pc' = "poll") => cmd_pc = "wait"

\* C23: after stop() cleared the flag, each duty that is still in its loop can
\* step, each of its steps brings it strictly nearer to leaving the loop, and a
\* duty that left starts nothing; the command-poll duty issues no poll but the
\* one of the iteration that was already waiting.
C23_CoordinatedShutdown ==
  /\ [](StoppingDutiesCanStep /\ DoneIsFinal)
  /\ [][StoppingStepsDescend]_vars

\* The flag is cleared, heartbeat and telemetry have left their loops, and the
\* command-poll duty issues the poll of the iteration that was waiting.
C23_Witness ==
  /\ Stopping
  /\ hb_pc = "done"
  /\ tel_pc = "done"
  /\ cmd_pc = "poll"

====
